---------------------------- MODULE Spec2Model ----------------------------
(*
  A model of mcp-pull-buddy: the TTL cache (src/src/cache.ts), the GitHub
  accessors (src/src/test-client.ts, lines 45-474, the repository's github
  module) and the find-pr-buddy tool (src/src/index.ts).

  Time is counted in clock units of 2.5 minutes, so that the default
  time-to-live of five minutes is two units.
*)
EXTENDS Integers, Sequences, FiniteSets, TLC

(***************************************************************************)
(* Bounds of the model                                                     *)
(***************************************************************************)
MaxTime == 4
MaxTtl == 2
MaxRepos == 2
MaxRepoPulls == 2
MaxMembers == 3
MaxCount == 4
BuddyPulls == 2
ExpPulls == 2
MaxElapses == 1
MaxScoreArg == 3
HistPulls == 2
FailMembers == 2
MaxDigits == 2
FetchMembers == 2
RaceComputations == 3

AllLogins == <<"ann", "bob", "cy", "dee", "eve", "fay">>

Keys == {"k1", "k2"}
Values == {"v1", "v2"}

\* null, as returned by CacheStore.get on a miss
Null == "null"

VARIABLES
  cache,        \* CacheStore.cache : Map<string, {data, timestamp}>
  ttl,          \* CacheStore.ttl
  now,          \* Date.now()
  lastOp,       \* the last CacheStore call: its name, key, time, return value, and whether it evicted
  written,      \* history: per key, the data and time of the latest set since the last clear
  overwritten,  \* history: per key, the data and time of the set before the latest one
  org,          \* upstream: the organization's repositories, each the list of its pull requests
  called,       \* the accessors of the organization's pull requests that have returned
  pullRequestsOfOwner,  \* what getPullRequestByOwner(owner) returned
  requestsPerUser,      \* what getReviewRequestsPerUser(owner) returned
  github,       \* upstream: the members, the pull request and the repository's pull requests, reviews and files
  count,        \* find-pr-buddy: the count it is called with
  pc,           \* find-pr-buddy: the await the handler is at
  prDetails,    \* find-pr-buddy: prDetails
  buddies,      \* find-pr-buddy: buddies
  reviewStates, \* find-pr-buddy: reviewStates
  branches,     \* find-pr-buddy: the callbacks of the fan-out, each with its locals and position
  settled,      \* find-pr-buddy: the callbacks that have returned, in the order they returned
  scoredReviewers,    \* find-pr-buddy: scoredReviewers
  pullRequestsCache,  \* test-client.ts line 100
  reviewsCache,       \* test-client.ts line 103
  filesCache,         \* test-client.ts line 106
  thrown,       \* find-pr-buddy: the error the handler's promise is rejected with
  failed,       \* history: the upstream calls of find-pr-buddy that failed, in order
  issued,       \* history, kept when issued.on: per callback of the fan-out, the cache keys it asked upstream for
  scoreArgs,    \* the two candidates a score is computed for
  scores,       \* their scores
  url,          \* parsePullRequestUrl: its argument, as path segments
  parsed,       \* parsePullRequestUrl: what it returned
  directory,    \* upstream: the organization's members and what users.getByUsername answers
  lookups,      \* getReviewBuddy: the callbacks of members.map, each with its position and value
  lookupOrder,  \* getReviewBuddy: the callbacks that have returned, in the order they returned
  membersWithDetails,  \* getReviewBuddy: what it returned
  computations, \* the computations that read a key through the cache (test-client.ts 278-292)
  fetched       \* history: per key, the values upstream returned for it

cacheVars == <<cache, ttl, now, lastOp, written, overwritten>>
orgVars == <<org, called, pullRequestsOfOwner, requestsPerUser>>

buddyVars == <<github, count, pc, prDetails, buddies, reviewStates, branches, settled,
               scoredReviewers, pullRequestsCache, reviewsCache, filesCache,
               thrown, failed, issued>>
scoreVars == <<scoreArgs, scores>>
parseVars == <<url, parsed>>
memberVars == <<directory, lookups, lookupOrder, membersWithDetails>>
raceVars == <<computations, fetched>>
otherVars == <<parseVars, memberVars, raceVars>>

vars == <<cache, ttl, now, lastOp, written, overwritten,
          org, called, pullRequestsOfOwner, requestsPerUser,
          github, count, pc, prDetails, buddies, reviewStates, branches, settled,
          scoredReviewers, pullRequestsCache, reviewsCache, filesCache,
          thrown, failed, issued,
          scoreArgs, scores, url, parsed,
          directory, lookups, lookupOrder, membersWithDetails,
          computations, fetched>>

(***************************************************************************)
(* CacheStore (src/src/cache.ts). A store is a function whose domain is    *)
(* the set of keys present in the Map.                                     *)
(***************************************************************************)
EmptyStore == [k \in {} |-> Null]

MapDelete(store, key) == [k \in (DOMAIN store) \ {key} |-> store[k]]

MapSet(store, key, entry) ==
  [k \in (DOMAIN store) \cup {key} |-> IF k = key THEN entry ELSE store[k]]

\* What get returns: hit is TRUE when the return value is not null.
Miss == [hit |-> FALSE, value |-> Null]
Hit(data) == [hit |-> TRUE, value |-> data]

\* get(key): the returned value and the store it leaves
StoreGetUnlessFresh(store, key, t, life) ==
  IF key \notin DOMAIN store
  THEN [ret |-> Miss, store |-> store]
  ELSE IF t - store[key].timestamp >= life
       THEN [ret |-> Miss, store |-> MapDelete(store, key)]
       ELSE [ret |-> Hit(store[key].data), store |-> store]

StoreGetNoEvict(store, key, t, life) ==
  IF key \notin DOMAIN store
  THEN [ret |-> Miss, store |-> store]
  ELSE IF t - store[key].timestamp > life
       THEN [ret |-> Miss, store |-> store]
       ELSE [ret |-> Hit(store[key].data), store |-> store]

StoreGet(store, key, t, life) ==
  IF key \notin DOMAIN store
  THEN [ret |-> Miss, store |-> store]
  ELSE IF t - store[key].timestamp > life
       THEN [ret |-> Miss, store |-> MapDelete(store, key)]
       ELSE [ret |-> Hit(store[key].data), store |-> store]

\* set(key, data)
StoreSetKeepStamp(store, key, data, t) ==
  MapSet(store, key,
         [data |-> data,
          timestamp |-> IF key \in DOMAIN store THEN store[key].timestamp ELSE t])

StoreSetIfAbsent(store, key, data, t) ==
  IF key \in DOMAIN store THEN store
  ELSE MapSet(store, key, [data |-> data, timestamp |-> t])

StoreSet(store, key, data, t) ==
  MapSet(store, key, [data |-> data, timestamp |-> t])

\* clear()
StoreClear(store) == EmptyStore

\* history of the calls: no set of the key since the last clear
NotWritten == [data |-> Null, timestamp |-> -1]
NoWrite == [k \in Keys |-> NotWritten]

\* no error: the handler's promise is not rejected
NoError == [call |-> Null, branch |-> 0]

\* parsePullRequestUrl: not called yet, and what it returns when nothing matches
ParseMiss == [ok |-> FALSE, owner |-> <<>>, repo |-> <<>>, pullNumber |-> 0]
NotParsed == [done |-> FALSE, ret |-> ParseMiss]

\* the history of the upstream calls of the fan-out: not kept, and kept
NoHistory == [on |-> FALSE, keys |-> <<>>]
EmptyHistory == [on |-> TRUE, keys |-> <<>>]

\* the variables of the accessors, while only the cache is exercised
OrgNotCalled ==
  /\ called = {}
  /\ pullRequestsOfOwner = <<>>
  /\ requestsPerUser = <<>>

OrgIdle ==
  /\ org = <<>>
  /\ OrgNotCalled

\* the variables of find-pr-buddy, while it is not called
BuddyIdle ==
  /\ github = Null
  /\ count = 0
  /\ pc = "idle"
  /\ prDetails = Null
  /\ buddies = <<>>
  /\ reviewStates = <<>>
  /\ branches = <<>>
  /\ settled = <<>>
  /\ scoredReviewers = <<>>
  /\ pullRequestsCache = EmptyStore
  /\ reviewsCache = EmptyStore
  /\ filesCache = EmptyStore
  /\ thrown = NoError
  /\ failed = <<>>
  /\ issued = NoHistory

\* the variables of the score, while it is not computed
ScoreIdle ==
  /\ scoreArgs = <<>>
  /\ scores = <<>>

\* the variables of parsePullRequestUrl, while it is not called
ParseIdle ==
  /\ url = <<>>
  /\ parsed = NotParsed

\* the variables of getReviewBuddy, while it is not called
MembersIdle ==
  /\ directory = Null
  /\ lookups = [pc |-> "idle", callbacks |-> <<>>]
  /\ lookupOrder = <<>>
  /\ membersWithDetails = <<>>

\* no computation reads through the cache
RaceIdle ==
  /\ computations = <<>>
  /\ fetched = <<>>

OthersIdle ==
  /\ ParseIdle
  /\ MembersIdle
  /\ RaceIdle

\* the variables of the CacheStore under test, while it is not exercised
CacheIdle ==
  /\ cache = EmptyStore
  /\ ttl = 0
  /\ lastOp = [op |-> "new", key |-> Null, at |-> 0, ret |-> Miss, evicted |-> FALSE]
  /\ written = NoWrite
  /\ overwritten = NoWrite

InitCache ==
  /\ OthersIdle
  /\ OrgIdle
  /\ BuddyIdle
  /\ ScoreIdle
  /\ cache = EmptyStore
  /\ ttl \in 0..MaxTtl
  /\ now = 0
  /\ lastOp = [op |-> "new", key |-> Null, at |-> 0, ret |-> Miss, evicted |-> FALSE]
  /\ written = NoWrite
  /\ overwritten = NoWrite

Get(key) ==
  LET r == StoreGet(cache, key, now, ttl) IN
  /\ cache' = r.store
  /\ lastOp' = [op |-> "get", key |-> key, at |-> now, ret |-> r.ret,
                evicted |-> (DOMAIN r.store # DOMAIN cache)]
  /\ UNCHANGED <<ttl, now, written, overwritten>>
  /\ UNCHANGED <<orgVars, buddyVars, scoreVars, otherVars>>

Set(key, data) ==
  /\ cache' = StoreSet(cache, key, data, now)
  /\ lastOp' = [op |-> "set", key |-> key, at |-> now, ret |-> Miss, evicted |-> FALSE]
  /\ written' = [written EXCEPT ![key] = [data |-> data, timestamp |-> now]]
  /\ overwritten' = [overwritten EXCEPT ![key] = written[key]]
  /\ UNCHANGED <<ttl, now>>
  /\ UNCHANGED <<orgVars, buddyVars, scoreVars, otherVars>>

Clear ==
  /\ cache' = StoreClear(cache)
  /\ lastOp' = [op |-> "clear", key |-> Null, at |-> now, ret |-> Miss, evicted |-> FALSE]
  /\ written' = NoWrite
  /\ overwritten' = NoWrite
  /\ UNCHANGED <<ttl, now>>
  /\ UNCHANGED <<orgVars, buddyVars, scoreVars, otherVars>>

\* the clock advances between calls
Tick ==
  /\ now < MaxTime
  /\ now' = now + 1
  /\ UNCHANGED <<cache, ttl, lastOp, written, overwritten>>
  /\ UNCHANGED <<orgVars, buddyVars, scoreVars, otherVars>>

NextCache ==
  \/ \E k \in Keys : Get(k)
  \/ \E k \in Keys, v \in Values : Set(k, v)
  \/ Clear
  \/ Tick

SpecCache == InitCache /\ [][NextCache]_vars

(***************************************************************************)
(* The organization's pull requests (src/src/test-client.ts, 153-190)      *)
(***************************************************************************)
Logins == {AllLogins[i] : i \in 1..2}

\* sequences over S of length at most n
RECURSIVE SeqsUpTo(_, _)
SeqsUpTo(S, n) ==
  IF n = 0 THEN {<<>>}
  ELSE LET shorter == SeqsUpTo(S, n - 1) IN
       shorter \cup {Append(q, x) : q \in {r \in shorter : Len(r) = n - 1}, x \in S}

\* upstream: a repository is the list of the requested_reviewers of its pull requests
OrgWorlds(maxRepos, maxPulls) == SeqsUpTo(SeqsUpTo(SUBSET Logins, maxPulls), maxRepos)

\* octokit.rest.pulls.list({owner, repo}) for the i-th repository of the organization
PullsListOfRepo(repos, i) ==
  [j \in 1..Len(repos[i]) |->
     [repo |-> i, number |-> j, requested_reviewers |-> repos[i][j]]]

\* the for loop of getPullRequestByOwner: the data of each response is bound to
\* a block-scoped pullRequests, so push(...pullRequests) appends the response to
\* itself and the function's own pullRequests array is the one returned
RECURSIVE PullRequestByOwnerLoop(_, _, _)
PullRequestByOwnerLoop(repos, i, pullRequests) ==
  IF i > Len(repos)
  THEN pullRequests
  ELSE LET inner == PullsListOfRepo(repos, i)
           pushed == inner \o inner
       IN PullRequestByOwnerLoop(repos, i + 1, pullRequests)

GetPullRequestByOwner(repos) == PullRequestByOwnerLoop(repos, 1, <<>>)

\* the logins that some pull request of the list requests
RequestedLogins(pullRequests) ==
  UNION {pullRequests[i].requested_reviewers : i \in 1..Len(pullRequests)}

\* getReviewRequestsPerUser: reviewStates[login] is set only for a requested login
GetReviewRequestsPerUser(repos) ==
  LET pullRequests == GetPullRequestByOwner(repos) IN
  [login \in RequestedLogins(pullRequests) |->
     Cardinality({i \in 1..Len(pullRequests) :
                    login \in pullRequests[i].requested_reviewers})]

\* reviewStates[reviewer.login] || 0
PendingReviews(states, login) ==
  IF login \in DOMAIN states THEN states[login] ELSE 0

InitOrg ==
  /\ OthersIdle
  /\ CacheIdle
  /\ BuddyIdle
  /\ ScoreIdle
  /\ now = 0
  /\ org \in OrgWorlds(MaxRepos, MaxRepoPulls)
  /\ OrgNotCalled

CallGetPullRequestByOwner ==
  /\ pullRequestsOfOwner' = GetPullRequestByOwner(org)
  /\ called' = called \cup {"getPullRequestByOwner"}
  /\ UNCHANGED <<org, requestsPerUser>>
  /\ UNCHANGED <<cacheVars, buddyVars, scoreVars, otherVars>>

CallGetReviewRequestsPerUser ==
  /\ requestsPerUser' = GetReviewRequestsPerUser(org)
  /\ called' = called \cup {"getReviewRequestsPerUser"}
  /\ UNCHANGED <<org, pullRequestsOfOwner>>
  /\ UNCHANGED <<cacheVars, buddyVars, scoreVars, otherVars>>

NextOrg ==
  \/ CallGetPullRequestByOwner
  \/ CallGetReviewRequestsPerUser

SpecOrg == InitOrg /\ [][NextOrg]_vars

(***************************************************************************)
(* The cached accessors of one repository (src/src/test-client.ts,         *)
(* 99-128 and 269-474). Times are clock units; -1 stands for an absent     *)
(* submitted_at.                                                           *)
(***************************************************************************)
\* CACHE_TTL = 5 * 60 * 1000 ms, in clock units of 2.5 minutes
CACHE_TTL == 2
\* 30 * 24 * 60 * 60 * 1000 ms, in clock units of 2.5 minutes
THIRTY_DAYS == 17280

Owner == "acme"
Repo == "widgets"

GetPRCacheKey(owner, repo) == <<"pr", owner, repo>>
GetReviewsCacheKey(owner, repo, prNumber) == <<"review", owner, repo, prNumber>>
GetFilesCacheKey(owner, repo, prNumber) == <<"files", owner, repo, prNumber>>

\* the locals of one reviewer's callback of the fan-out: of getReviewHistory
\* (pullRequests .. totalResponseTime), of calculateRelatedFileExperience
\* (currentFiles, relatedChanges, and pullRequests, i, prReviews again) and of
\* the callback itself (history, value)
NewBranch(login, t) ==
  [reviewer |-> login,
   pc |-> "H_start",
   since |-> t - THIRTY_DAYS,
   pullRequests |-> <<>>,
   i |-> 1,
   prReviews |-> <<>>,
   reviewerReviews |-> <<>>,
   j |-> 1,
   reviews |-> <<>>,
   totalResponseTime |-> 0,
   history |-> [totalReviews |-> 0, averageResponseTime |-> [num |-> 0, den |-> 1],
                reviews |-> <<>>],
   currentFiles |-> {},
   relatedChanges |-> 0,
   value |-> [login |-> login, pendingReviews |-> 0, totalReviews |-> 0,
              relatedFileChanges |-> 0]]

\* the positions at which a callback waits for a promise
AwaitLabels ==
  {"H_awaitPulls", "H_awaitReviews", "H_awaitComments", "awaitHistory",
   "E_awaitFiles", "E_awaitPulls", "E_awaitReviews", "E_awaitReviewFiles",
   "awaitExperience"}

\* the positions at which a callback waits for an upstream list it caches
FetchLabels ==
  {"H_awaitPulls", "H_awaitReviews",
   "E_awaitFiles", "E_awaitPulls", "E_awaitReviews", "E_awaitReviewFiles"}

\* the cache key of the list a callback at one of these positions waits for
AwaitedKey(b, prNumber) ==
  CASE b.pc \in {"H_awaitPulls", "E_awaitPulls"} -> GetPRCacheKey(Owner, Repo)
    [] b.pc \in {"H_awaitReviews", "E_awaitReviews"} ->
         GetReviewsCacheKey(Owner, Repo, b.pullRequests[b.i].number)
    [] b.pc = "E_awaitFiles" -> GetFilesCacheKey(Owner, Repo, prNumber)
    [] b.pc = "E_awaitReviewFiles" ->
         GetFilesCacheKey(Owner, Repo, b.pullRequests[b.i].number)

\* history: the keys a callback has asked upstream for, once it has run up to b
IssuedAfter(keys, b, prNumber) ==
  IF b.pc \in FetchLabels THEN Append(keys, AwaitedKey(b, prNumber)) ELSE keys

\* line 302: new Date(pr.created_at) < since
CreatedUpTo(pr, since) == pr.created_at <= since

CreatedBefore(pr, since) == pr.created_at < since

\* lines 351-353: the time from the pull request's creation to the review; a
\* review without submitted_at counts from the creation itself
ResponseTime(review, pr) ==
  (IF review.submitted_at = -1 THEN pr.created_at ELSE review.submitted_at)
  - pr.created_at

\* lines 370-371, as the exact fraction num / den
AverageUnguarded(totalResponseTime, reviews) ==
  [num |-> totalResponseTime, den |-> Len(reviews)]

AverageResponseTime(totalResponseTime, reviews) ==
  IF Len(reviews) > 0
  THEN [num |-> totalResponseTime, den |-> Len(reviews)]
  ELSE [num |-> 0, den |-> 1]

\* line 467: some file of the reviewed pull request is a file of the current one
OverlapsAll(reviewFiles, currentFiles) == reviewFiles \subseteq currentFiles

Overlaps(reviewFiles, currentFiles) ==
  \E file \in reviewFiles : file \in currentFiles

\* One synchronous stretch of a callback: from the position st.b.pc to the next
\* position, with the reads of the three caches at time t. st holds the
\* callback's locals (b) and the three module-level caches.
SyncStep(st, t) ==
  LET b == st.b IN
  CASE b.pc = "H_start" ->
         \* getReviewHistory, lines 278-292
         LET r == StoreGet(st.pullRequestsCache, GetPRCacheKey(Owner, Repo), t, CACHE_TTL) IN
         IF r.ret.hit
         THEN [st EXCEPT !.pullRequestsCache = r.store,
                         !.b.pullRequests = r.ret.value, !.b.i = 1, !.b.pc = "H_loop"]
         ELSE [st EXCEPT !.pullRequestsCache = r.store, !.b.pc = "H_awaitPulls"]
    [] b.pc = "H_loop" ->
         \* lines 300-316, and 367-383 once the loop is over
         IF b.i > Len(b.pullRequests)
         THEN [st EXCEPT !.b.history =
                            [totalReviews |-> Len(b.reviews),
                             averageResponseTime |->
                                AverageResponseTime(b.totalResponseTime, b.reviews),
                             reviews |-> b.reviews],
                         !.b.pc = "awaitHistory"]
         ELSE IF CreatedBefore(b.pullRequests[b.i], b.since)
         THEN [st EXCEPT !.b.i = b.i + 1]
         ELSE LET r == StoreGet(st.reviewsCache,
                                GetReviewsCacheKey(Owner, Repo, b.pullRequests[b.i].number),
                                t, CACHE_TTL) IN
              IF r.ret.hit
              THEN [st EXCEPT !.reviewsCache = r.store,
                              !.b.prReviews = r.ret.value, !.b.pc = "H_reviews"]
              ELSE [st EXCEPT !.reviewsCache = r.store, !.b.pc = "H_awaitReviews"]
    [] b.pc = "H_reviews" ->
         \* lines 319-321
         LET ByReviewer(review) == review.user = b.reviewer IN
         [st EXCEPT !.b.reviewerReviews = SelectSeq(b.prReviews, ByReviewer),
                    !.b.j = 1, !.b.pc = "H_each"]
    [] b.pc = "H_each" ->
         \* line 323: the next review of the reviewer, or the next pull request
         IF b.j > Len(b.reviewerReviews)
         THEN [st EXCEPT !.b.i = b.i + 1, !.b.pc = "H_loop"]
         ELSE [st EXCEPT !.b.pc = "H_awaitComments"]
    [] b.pc = "E_start" ->
         \* calculateRelatedFileExperience, lines 396-407
         LET r == StoreGet(st.filesCache, GetFilesCacheKey(Owner, Repo, st.prNumber),
                           t, CACHE_TTL) IN
         IF r.ret.hit
         THEN [st EXCEPT !.filesCache = r.store,
                         !.b.currentFiles = r.ret.value, !.b.pc = "E_pulls"]
         ELSE [st EXCEPT !.filesCache = r.store, !.b.pc = "E_awaitFiles"]
    [] b.pc = "E_pulls" ->
         \* lines 412-426
         LET r == StoreGet(st.pullRequestsCache, GetPRCacheKey(Owner, Repo), t, CACHE_TTL) IN
         IF r.ret.hit
         THEN [st EXCEPT !.pullRequestsCache = r.store,
                         !.b.pullRequests = r.ret.value, !.b.i = 1, !.b.pc = "E_loop"]
         ELSE [st EXCEPT !.pullRequestsCache = r.store, !.b.pc = "E_awaitPulls"]
    [] b.pc = "E_loop" ->
         \* lines 431-444, and 473 once the loop is over
         IF b.i > Len(b.pullRequests)
         THEN [st EXCEPT !.b.pc = "awaitExperience"]
         ELSE LET r == StoreGet(st.reviewsCache,
                                GetReviewsCacheKey(Owner, Repo, b.pullRequests[b.i].number),
                                t, CACHE_TTL) IN
              IF r.ret.hit
              THEN [st EXCEPT !.reviewsCache = r.store,
                              !.b.prReviews = r.ret.value, !.b.pc = "E_reviews"]
              ELSE [st EXCEPT !.reviewsCache = r.store, !.b.pc = "E_awaitReviews"]
    [] b.pc = "E_reviews" ->
         \* lines 447-464
         LET hasReviewed == \E k \in 1..Len(b.prReviews) : b.prReviews[k].user = b.reviewer IN
         IF ~hasReviewed
         THEN [st EXCEPT !.b.i = b.i + 1, !.b.pc = "E_loop"]
         ELSE LET r == StoreGet(st.filesCache,
                                GetFilesCacheKey(Owner, Repo, b.pullRequests[b.i].number),
                                t, CACHE_TTL) IN
              IF r.ret.hit
              THEN [st EXCEPT !.filesCache = r.store,
                              !.b.relatedChanges =
                                 IF Overlaps(r.ret.value, b.currentFiles)
                                 THEN b.relatedChanges + 1 ELSE b.relatedChanges,
                              !.b.i = b.i + 1, !.b.pc = "E_loop"]
              ELSE [st EXCEPT !.filesCache = r.store, !.b.pc = "E_awaitReviewFiles"]

\* a callback runs until it waits for a promise or has returned
RECURSIVE Run(_, _)
Run(st, t) ==
  IF st.b.pc \in AwaitLabels \cup {"done"} THEN st ELSE Run(SyncStep(st, t), t)

\* A promise a callback waits for is fulfilled: the assignments that follow the
\* await, up to the next position. gh is the upstream data, states the mapping
\* of getReviewRequestsPerUser.
Resumed(st, t, gh, states) ==
  LET b == st.b IN
  CASE b.pc = "H_awaitPulls" ->
         \* lines 290-291
         [st EXCEPT !.pullRequestsCache =
                       StoreSet(st.pullRequestsCache, GetPRCacheKey(Owner, Repo), gh.pulls, t),
                    !.b.pullRequests = gh.pulls, !.b.i = 1, !.b.pc = "H_loop"]
    [] b.pc = "H_awaitReviews" ->
         \* lines 314-315
         LET n == b.pullRequests[b.i].number IN
         [st EXCEPT !.reviewsCache =
                       StoreSet(st.reviewsCache, GetReviewsCacheKey(Owner, Repo, n),
                                gh.reviews[n], t),
                    !.b.prReviews = gh.reviews[n], !.b.pc = "H_reviews"]
    [] b.pc = "H_awaitComments" ->
         \* lines 331-354
         LET pr == b.pullRequests[b.i]
             review == b.reviewerReviews[b.j]
             responseTime == ResponseTime(review, pr)
         IN [st EXCEPT !.b.reviews = Append(b.reviews,
                                            [prNumber |-> pr.number,
                                             submittedAt |-> review.submitted_at]),
                       !.b.totalResponseTime = b.totalResponseTime + responseTime,
                       !.b.j = b.j + 1, !.b.pc = "H_each"]
    [] b.pc = "awaitHistory" ->
         \* index.ts lines 193-198: history is bound, the experience is asked for
         [st EXCEPT !.b.i = 1, !.b.pc = "E_start"]
    [] b.pc = "E_awaitFiles" ->
         \* lines 405-409
         [st EXCEPT !.filesCache =
                       StoreSet(st.filesCache, GetFilesCacheKey(Owner, Repo, st.prNumber),
                                gh.files[st.prNumber], t),
                    !.b.currentFiles = gh.files[st.prNumber], !.b.pc = "E_pulls"]
    [] b.pc = "E_awaitPulls" ->
         \* lines 424-425
         [st EXCEPT !.pullRequestsCache =
                       StoreSet(st.pullRequestsCache, GetPRCacheKey(Owner, Repo), gh.pulls, t),
                    !.b.pullRequests = gh.pulls, !.b.i = 1, !.b.pc = "E_loop"]
    [] b.pc = "E_awaitReviews" ->
         \* lines 442-443
         LET n == b.pullRequests[b.i].number IN
         [st EXCEPT !.reviewsCache =
                       StoreSet(st.reviewsCache, GetReviewsCacheKey(Owner, Repo, n),
                                gh.reviews[n], t),
                    !.b.prReviews = gh.reviews[n], !.b.pc = "E_reviews"]
    [] b.pc = "E_awaitReviewFiles" ->
         \* lines 462-469
         LET n == b.pullRequests[b.i].number IN
         [st EXCEPT !.filesCache =
                       StoreSet(st.filesCache, GetFilesCacheKey(Owner, Repo, n),
                                gh.files[n], t),
                    !.b.relatedChanges =
                       IF Overlaps(gh.files[n], b.currentFiles)
                       THEN b.relatedChanges + 1 ELSE b.relatedChanges,
                    !.b.i = b.i + 1, !.b.pc = "E_loop"]
    [] b.pc = "awaitExperience" ->
         \* index.ts lines 205-217
         [st EXCEPT !.b.value = [login |-> b.reviewer,
                                 pendingReviews |-> PendingReviews(states, b.reviewer),
                                 totalReviews |-> b.history.totalReviews,
                                 relatedFileChanges |-> b.relatedChanges],
                    !.b.pc = "done"]

(***************************************************************************)
(* find-pr-buddy (src/src/index.ts, 146-268)                               *)
(***************************************************************************)
\* the filter of lines 185-191
KeepsBuddy(buddy, details) ==
  \/ ~(\E r \in details.reviewers : r = buddy)
  \/ buddy # details.pr.user

\* buddies.filter(...).map(async ...): the callbacks are started one after the
\* other, each running up to its first await
StartCallback(started, login, t) ==
  LET first == Run([started.st EXCEPT !.b = NewBranch(login, t)], t) IN
  [branches |-> Append(started.branches, first.b), st |-> first]

RECURSIVE StartCallbacks(_, _, _)
StartCallbacks(candidates, started, t) ==
  IF candidates = <<>>
  THEN started
  ELSE StartCallbacks(Tail(candidates), StartCallback(started, Head(candidates), t), t)

\* Promise.all: the values of the callbacks in the order of the callbacks, not
\* in the order `order` in which they returned
PromiseAllBySettling(callbacks, order) ==
  [k \in 1..Len(callbacks) |-> callbacks[order[k]].value]

PromiseAll(callbacks, order) ==
  [k \in 1..Len(callbacks) |-> callbacks[k].value]

\* lines 224-227, as the exact fraction num / den:
\*   (1 / (p + 1)) * 0.3 + (r / 10) * 0.4 + (t / 50) * 0.3
\*     = (150 + (p + 1) * (20 r + 3 t)) / (500 (p + 1))
ScorePendingTimes(pendingReviews, relatedFileChanges, totalReviews) ==
  [num |-> 150 * (pendingReviews + 1) + 20 * relatedFileChanges + 3 * totalReviews,
   den |-> 500]

Score(pendingReviews, relatedFileChanges, totalReviews) ==
  [num |-> 150 + (pendingReviews + 1) * (20 * relatedFileChanges + 3 * totalReviews),
   den |-> 500 * (pendingReviews + 1)]

\* a.score < b.score
ScoreLess(a, b) == a.num * b.den < b.num * a.den

WithScore(reviewer) ==
  [login |-> reviewer.login,
   pendingReviews |-> reviewer.pendingReviews,
   totalReviews |-> reviewer.totalReviews,
   relatedFileChanges |-> reviewer.relatedFileChanges,
   score |-> Score(reviewer.pendingReviews, reviewer.relatedFileChanges,
                   reviewer.totalReviews)]

\* Array.prototype.sort((a, b) => b.score - a.score): a stable sort, here by
\* insertion; x goes before the first element that the comparator puts after it
RECURSIVE InsertBeforeEqual(_, _)
InsertBeforeEqual(sorted, x) ==
  IF sorted = <<>> THEN <<x>>
  ELSE IF ~ScoreLess(x.score, Head(sorted).score)
       THEN <<x>> \o sorted
       ELSE <<Head(sorted)>> \o InsertBeforeEqual(Tail(sorted), x)

RECURSIVE InsertByScore(_, _)
InsertByScore(sorted, x) ==
  IF sorted = <<>> THEN <<x>>
  ELSE IF ScoreLess(Head(sorted).score, x.score)
       THEN <<x>> \o sorted
       ELSE <<Head(sorted)>> \o InsertByScore(Tail(sorted), x)

RECURSIVE SortByScoreFrom(_, _)
SortByScoreFrom(sorted, rest) ==
  IF rest = <<>> THEN sorted
  ELSE SortByScoreFrom(InsertByScore(sorted, Head(rest)), Tail(rest))

SortByScore(s) == SortByScoreFrom(<<>>, s)

\* Array.prototype.slice(0, end)
SliceTo(s, end) ==
  LET last == IF end < 0
              THEN (IF Len(s) + end < 0 THEN 0 ELSE Len(s) + end)
              ELSE (IF end > Len(s) THEN Len(s) ELSE end)
  IN SubSeq(s, 1, last)

\* lines 222-235
ScoredReviewers(reviewerDetails, n) ==
  SliceTo(SortByScore([k \in 1..Len(reviewerDetails) |-> WithScore(reviewerDetails[k])]), n)

\* the three module-level caches and one callback's locals, as SyncStep takes them
Machine(b) ==
  [b |-> b,
   prNumber |-> github.pull.number,
   pullRequestsCache |-> pullRequestsCache,
   reviewsCache |-> reviewsCache,
   filesCache |-> filesCache]

NoBranch == NewBranch(Null, 0)

\* the state in which the tool is called for pull request gh.pull with count n
StartOfCall(gh, n) ==
  /\ github = gh
  /\ count = n
  /\ org = <<[k \in 1..Len(gh.pulls) |-> gh.requested[gh.pulls[k].number]]>>
  /\ pc = "getPullRequestDetails"
  /\ prDetails = [pr |-> gh.pull, files |-> {}, reviewers |-> {}]
  /\ buddies = <<>>
  /\ reviewStates = <<>>
  /\ branches = <<>>
  /\ settled = <<>>
  /\ scoredReviewers = <<>>
  /\ pullRequestsCache = EmptyStore
  /\ reviewsCache = EmptyStore
  /\ filesCache = EmptyStore
  /\ thrown = NoError
  /\ failed = <<>>

\* lines 166-177: getPullRequestDetails (test-client.ts 235-267) has returned
GetPullRequestDetailsReturns ==
  /\ pc = "getPullRequestDetails"
  /\ prDetails' = [pr |-> github.pull,
                   files |-> github.files[github.pull.number],
                   reviewers |-> github.pull.requested_reviewers]
  /\ pc' = "getReviewBuddy"
  /\ UNCHANGED <<github, count, buddies, reviewStates, branches, settled,
                 scoredReviewers, pullRequestsCache, reviewsCache, filesCache>>
  /\ UNCHANGED <<thrown, failed, issued>>
  /\ UNCHANGED <<cacheVars, orgVars, scoreVars, otherVars>>

\* line 179: getReviewBuddy (test-client.ts 192-218) has returned
GetReviewBuddyReturns ==
  /\ pc = "getReviewBuddy"
  /\ buddies' = github.members
  /\ pc' = "getReviewRequestsPerUser"
  /\ UNCHANGED <<github, count, prDetails, reviewStates, branches, settled,
                 scoredReviewers, pullRequestsCache, reviewsCache, filesCache>>
  /\ UNCHANGED <<thrown, failed, issued>>
  /\ UNCHANGED <<cacheVars, orgVars, scoreVars, otherVars>>

\* lines 180-219: getReviewRequestsPerUser has returned; the buddies are
\* filtered and one callback per remaining buddy is started
GetReviewRequestsPerUserReturns ==
  /\ pc = "getReviewRequestsPerUser"
  /\ reviewStates' = GetReviewRequestsPerUser(org)
  /\ LET Keeps(buddy) == KeepsBuddy(buddy, prDetails) IN
     \E started \in {StartCallbacks(SelectSeq(buddies, Keeps),
                                    [branches |-> <<>>, st |-> Machine(NoBranch)], now)} :
        /\ branches' = started.branches
        /\ pullRequestsCache' = started.st.pullRequestsCache
        /\ reviewsCache' = started.st.reviewsCache
        /\ filesCache' = started.st.filesCache
        /\ issued' = IF issued.on
                     THEN [issued EXCEPT !.keys =
                             [k \in 1..Len(started.branches) |->
                                IssuedAfter(<<>>, started.branches[k], github.pull.number)]]
                     ELSE issued
  /\ pc' = "Promise.all"
  /\ UNCHANGED <<github, count, prDetails, buddies, settled, scoredReviewers>>
  /\ UNCHANGED <<thrown, failed>>
  /\ UNCHANGED <<cacheVars, orgVars, scoreVars, otherVars>>

\* the promise the k-th callback waits at one of the positions `at` for is
\* fulfilled, and the callback runs up to its next await; the callbacks go on
\* after Promise.all has rejected
Continue(k, at) ==
  /\ pc \in {"Promise.all", "threw"}
  /\ k \in 1..Len(branches)
  /\ branches[k].pc \in at
  /\ \E st \in {Run(Resumed(Machine(branches[k]), now, github, reviewStates), now)} :
     /\ branches' = [branches EXCEPT ![k] = st.b]
     /\ pullRequestsCache' = st.pullRequestsCache
     /\ reviewsCache' = st.reviewsCache
     /\ filesCache' = st.filesCache
     /\ settled' = IF st.b.pc = "done" THEN Append(settled, k) ELSE settled
     /\ issued' = IF issued.on
                  THEN [issued EXCEPT !.keys[k] =
                          IssuedAfter(issued.keys[k], st.b, github.pull.number)]
                  ELSE issued
  /\ UNCHANGED <<github, count, pc, prDetails, buddies, reviewStates, scoredReviewers>>
  /\ UNCHANGED <<thrown, failed>>
  /\ UNCHANGED <<cacheVars, orgVars, scoreVars, otherVars>>

PullsListResponds(k) == Continue(k, {"H_awaitPulls", "E_awaitPulls"})
ListReviewsResponds(k) == Continue(k, {"H_awaitReviews", "E_awaitReviews"})
ListReviewCommentsResponds(k) == Continue(k, {"H_awaitComments"})
ListFilesResponds(k) == Continue(k, {"E_awaitFiles", "E_awaitReviewFiles"})
GetReviewHistoryReturns(k) == Continue(k, {"awaitHistory"})
CalculateRelatedFileExperienceReturns(k) == Continue(k, {"awaitExperience"})

\* lines 222-267: every callback has returned; the reviewers are scored, sorted
\* and cut to count
PromiseAllResolves ==
  /\ pc = "Promise.all"
  /\ \A k \in 1..Len(branches) : branches[k].pc = "done"
  /\ scoredReviewers' = ScoredReviewers(PromiseAll(branches, settled), count)
  /\ pc' = "returned"
  /\ UNCHANGED <<github, count, prDetails, buddies, reviewStates, branches, settled,
                 pullRequestsCache, reviewsCache, filesCache>>
  /\ UNCHANGED <<thrown, failed, issued>>
  /\ UNCHANGED <<cacheVars, orgVars, scoreVars, otherVars>>

NextBuddy ==
  \/ GetPullRequestDetailsReturns
  \/ GetReviewBuddyReturns
  \/ GetReviewRequestsPerUserReturns
  \/ \E k \in 1..MaxMembers : PullsListResponds(k)
  \/ \E k \in 1..MaxMembers : ListReviewsResponds(k)
  \/ \E k \in 1..MaxMembers : ListReviewCommentsResponds(k)
  \/ \E k \in 1..MaxMembers : ListFilesResponds(k)
  \/ \E k \in 1..MaxMembers : GetReviewHistoryReturns(k)
  \/ \E k \in 1..MaxMembers : CalculateRelatedFileExperienceReturns(k)
  \/ PromiseAllResolves

(***************************************************************************)
(* The upstream data the tool is run against                               *)
(***************************************************************************)
Filenames == {"x.ts", "y.ts", "z.ts"}

\* the clock when the tool is called, and the creation times it is run against:
\* before and after the since of getReviewHistory, which is CallTime - THIRTY_DAYS
CallTime == THIRTY_DAYS + 2
Old == 1
Recent == 3

FirstLogins(n) == {AllLogins[k] : k \in 1..n}

\* octokit.rest.pulls.list: the pull requests n..1, the latest first
Pulls(n, created) ==
  [k \in 1..n |-> [number |-> n + 1 - k, created_at |-> created[n + 1 - k]]]

\* octokit.rest.pulls.listReviews: one review per login of the list, submitted
\* one clock unit after the other from the creation of the pull request on
Reviews(users, created) ==
  [k \in 1..Len(users) |-> [user |-> users[k], submitted_at |-> created + k]]

World(logins, author, requested, n, created, reviewers, files) ==
  [members |-> logins,
   pull |-> [number |-> 1, user |-> author, requested_reviewers |-> requested],
   pulls |-> Pulls(n, created),
   reviews |-> [p \in 1..n |-> Reviews(reviewers[p], created[p])],
   files |-> files,
   requested |-> [p \in 1..n |-> IF p = 1 THEN requested ELSE {}]]

\* any member list, author and requested reviewers, over a repository of
\* `pulls` pull requests of which the latest was reviewed by the first login
BuddyWorlds(maxMembers, pulls) ==
  {World(SubSeq(AllLogins, 1, m), author, requested, pulls,
         [p \in 1..pulls |-> Recent],
         [p \in 1..pulls |-> IF p = pulls THEN <<AllLogins[1]>> ELSE <<>>],
         [p \in 1..pulls |-> {"x.ts"}]) :
     m \in 0..maxMembers,
     author \in FirstLogins(maxMembers + 1),
     requested \in SUBSET FirstLogins(maxMembers)}

InitBuddy ==
  /\ OthersIdle
  /\ issued = NoHistory
  /\ CacheIdle
  /\ ScoreIdle
  /\ OrgNotCalled
  /\ now = CallTime
  /\ \E gh \in BuddyWorlds(MaxMembers, BuddyPulls) : StartOfCall(gh, MaxCount)

SpecBuddy == InitBuddy /\ [][NextBuddy]_vars


\* the first `members` logins as members, none of them the author or requested,
\* over a repository of `pulls` recent pull requests that all share a file: the
\* current one reviewed by the first member, the last member or nobody, the
\* latest one by the first k members or by all but the first k
RankWorlds(members, pulls) ==
  {World(SubSeq(AllLogins, 1, members), AllLogins[members + 1], {}, pulls,
         [p \in 1..pulls |-> Recent],
         [p \in 1..pulls |->
            IF p = pulls
            THEN SelectSeq(SubSeq(AllLogins, 1, members), LAMBDA login : login \in who)
            ELSE IF p = 1 /\ lone > 0 THEN <<AllLogins[lone]>> ELSE <<>>],
         [p \in 1..pulls |-> {"x.ts"}]) :
     who \in {FirstLogins(k) : k \in 0..members}
               \cup {FirstLogins(members) \ FirstLogins(k) : k \in 0..members},
     lone \in {0, 1, members}}

\* the counts the tool is called with: none, fewer than the candidates, more
CountChoices == {0, 2, MaxCount}

InitRank ==
  /\ OthersIdle
  /\ issued = NoHistory
  /\ CacheIdle
  /\ ScoreIdle
  /\ OrgNotCalled
  /\ now = CallTime
  /\ \E gh \in RankWorlds(MaxMembers, 2), n \in CountChoices : StartOfCall(gh, n)

SpecRank == InitRank /\ [][NextBuddy]_vars

\* one member, over a repository of `pulls` pull requests, one of them or none
\* created before since, each with no, one or two reviews and any of three file sets
ExpReviewers == {<<>>, <<"ann">>, <<"bob">>, <<"ann", "ann">>}

ExpFiles == {{"x.ts", "y.ts"}, {"y.ts", "z.ts"}, {"z.ts"}}

ExpWorlds(pulls) ==
  {World(<<"ann">>, "dee", {}, pulls,
         [p \in 1..pulls |-> IF p = old THEN Old ELSE Recent], reviewers, files) :
     old \in {0, 1, pulls},
     reviewers \in [1..pulls -> ExpReviewers],
     files \in [1..pulls -> ExpFiles]}

InitExp ==
  /\ OthersIdle
  /\ issued = NoHistory
  /\ CacheIdle
  /\ ScoreIdle
  /\ OrgNotCalled
  /\ now = CallTime
  /\ \E gh \in ExpWorlds(ExpPulls) : StartOfCall(gh, MaxCount)

\* more than CACHE_TTL passes while the callbacks wait
TtlElapses ==
  /\ pc = "Promise.all"
  /\ now < CallTime + MaxElapses * (CACHE_TTL + 1)
  /\ now' = now + CACHE_TTL + 1
  /\ UNCHANGED <<cache, ttl, lastOp, written, overwritten>>
  /\ UNCHANGED <<orgVars, buddyVars, scoreVars, otherVars>>

NextExp ==
  \/ NextBuddy
  \/ TtlElapses

SpecExp == InitExp /\ [][NextExp]_vars

(***************************************************************************)
(* One call of find-pr-buddy with the history of its upstream list calls,  *)
(* while no cache entry grows older than CACHE_TTL                         *)
(***************************************************************************)
\* one to `members` members as candidates, over a repository of two pull
\* requests: both recent and the latest reviewed by the first member, or the
\* current one created before since and both reviewed by the first two members
FetchWorlds(members) ==
  {World(SubSeq(AllLogins, 1, m), AllLogins[members + 1], {}, 2,
         [p \in 1..2 |-> IF p = old THEN Old ELSE Recent],
         [p \in 1..2 |-> IF old = 1 THEN <<AllLogins[1], AllLogins[2]>>
                          ELSE IF p = 2 THEN <<AllLogins[1]>> ELSE <<>>],
         [p \in 1..2 |-> {"x.ts"}]) :
     m \in 1..members,
     old \in 0..1}

InitFetch ==
  /\ OthersIdle
  /\ issued = EmptyHistory
  /\ CacheIdle
  /\ ScoreIdle
  /\ OrgNotCalled
  /\ now = CallTime
  /\ \E gh \in FetchWorlds(FetchMembers) : StartOfCall(gh, MaxCount)

\* CACHE_TTL passes while the callbacks wait, and no more during the call
TimePasses ==
  /\ pc = "Promise.all"
  /\ now < CallTime + CACHE_TTL
  /\ now' = now + CACHE_TTL
  /\ UNCHANGED <<cache, ttl, lastOp, written, overwritten>>
  /\ UNCHANGED <<orgVars, buddyVars, scoreVars, otherVars>>

NextFetch ==
  \/ NextBuddy
  \/ TimePasses

SpecFetch == InitFetch /\ [][NextFetch]_vars

(***************************************************************************)
(* Interleaved reads of a list through its cache (src/src/test-client.ts,  *)
(* 278-292, and alike 305-316, 396-407, 412-426, 433-444, 453-464): get,   *)
(* and on a miss the upstream call, and set once it has answered. The      *)
(* caches are built with the default time-to-live (lines 100-108).         *)
(***************************************************************************)
\* a computation about to read the list of this key
NewComputation(key) == [key |-> key, pc |-> "get", missed |-> FALSE, data |-> Null]

InitRace ==
  /\ OrgIdle
  /\ BuddyIdle
  /\ ScoreIdle
  /\ ParseIdle
  /\ MembersIdle
  /\ cache = EmptyStore
  /\ ttl = CACHE_TTL
  /\ now = 0
  /\ lastOp = [op |-> "new", key |-> Null, at |-> 0, ret |-> Miss, evicted |-> FALSE]
  /\ written = NoWrite
  /\ overwritten = NoWrite
  /\ computations \in [1..RaceComputations -> {NewComputation(k) : k \in Keys}]
  /\ fetched = [k \in Keys |-> {}]

\* lines 279-281: the computation reads its key; on a hit it has its list, on
\* a miss it calls upstream and waits
ReadsCache(c) ==
  /\ computations[c].pc = "get"
  /\ \E r \in {StoreGet(cache, computations[c].key, now, ttl)} :
       /\ cache' = r.store
       /\ lastOp' = [op |-> "get", key |-> computations[c].key, at |-> now,
                     ret |-> r.ret, evicted |-> (DOMAIN r.store # DOMAIN cache)]
       /\ computations' =
            IF r.ret.hit
            THEN [computations EXCEPT ![c].data = r.ret.value, ![c].pc = "done"]
            ELSE [computations EXCEPT ![c].missed = TRUE, ![c].pc = "awaitFetch"]
  /\ UNCHANGED <<ttl, now, written, overwritten, fetched>>
  /\ UNCHANGED <<orgVars, buddyVars, scoreVars, parseVars, memberVars>>

\* lines 282-291: upstream answers the computation with the list `data`,
\* which the computation keeps and sets in the cache
FetchResponds(c, data) ==
  /\ computations[c].pc = "awaitFetch"
  /\ cache' = StoreSet(cache, computations[c].key, data, now)
  /\ lastOp' = [op |-> "set", key |-> computations[c].key, at |-> now,
                ret |-> Miss, evicted |-> FALSE]
  /\ written' = [written EXCEPT ![computations[c].key] = [data |-> data, timestamp |-> now]]
  /\ overwritten' = [overwritten EXCEPT ![computations[c].key] = written[computations[c].key]]
  /\ fetched' = [fetched EXCEPT ![computations[c].key] = @ \cup {data}]
  /\ computations' = [computations EXCEPT ![c].data = data, ![c].pc = "done"]
  /\ UNCHANGED <<ttl, now>>
  /\ UNCHANGED <<orgVars, buddyVars, scoreVars, parseVars, memberVars>>

NextRace ==
  \/ \E c \in 1..RaceComputations : ReadsCache(c)
  \/ \E c \in 1..RaceComputations, data \in Values : FetchResponds(c, data)
  \/ Tick

SpecRace == InitRace /\ [][NextRace]_vars

(***************************************************************************)
(* parsePullRequestUrl (src/src/test-client.ts, 220-233). A string is the  *)
(* sequence of its segments between the "/" characters; a segment is a     *)
(* sequence of pieces of text, none of which contains "/".                 *)
(***************************************************************************)
Digits == <<"0", "1", "2", "3", "4", "5", "6", "7", "8", "9">>

IsDigit(c) == \E d \in 1..Len(Digits) : Digits[d] = c

DigitValue(c) == (CHOOSE d \in 1..Len(Digits) : Digits[d] = c) - 1

\* (\d+): the longest run of digits at the start of a segment
RECURSIVE DigitPrefix(_)
DigitPrefix(seg) ==
  IF seg = <<>> \/ ~IsDigit(Head(seg)) THEN <<>>
  ELSE <<Head(seg)>> \o DigitPrefix(Tail(seg))

\* Number.parseInt(digits, 10)
RECURSIVE ParseInt(_)
ParseInt(digits) ==
  IF digits = <<>> THEN 0
  ELSE 10 * ParseInt(SubSeq(digits, 1, Len(digits) - 1)) + DigitValue(digits[Len(digits)])

\* https?: followed by "//": the segment ends with the scheme, whatever precedes it
EndsWithScheme(seg) == seg # <<>> /\ seg[Len(seg)] \in {"http:", "https:"}

\* github\.com between two "/"
IsAnyHost(seg) == seg # <<>>

IsGithubHost(seg) == seg = <<"github.com">>

\* the regular expression of line 221 matches from segment i on
MatchesAt(segments, i) ==
  /\ i + 6 <= Len(segments)
  /\ EndsWithScheme(segments[i])
  /\ segments[i + 1] = <<>>
  /\ IsGithubHost(segments[i + 2])
  /\ segments[i + 3] # <<>>
  /\ segments[i + 4] # <<>>
  /\ segments[i + 5] = <<"pull">>
  /\ DigitPrefix(segments[i + 6]) # <<>>

\* url.match(regex): the leftmost match, looked for from segment i on
RECURSIVE MatchFrom(_, _)
MatchFrom(segments, i) ==
  IF i > Len(segments) THEN ParseMiss
  ELSE IF MatchesAt(segments, i)
       THEN [ok |-> TRUE,
             owner |-> segments[i + 3],
             repo |-> segments[i + 4],
             pullNumber |-> ParseInt(DigitPrefix(segments[i + 6]))]
       ELSE MatchFrom(segments, i + 1)

ParsePullRequestUrl(segments) == MatchFrom(segments, 1)

\* the strings the function is called with: a scheme, "//", a host, an owner, a
\* repository, a kind and a number, each as it should be or not, with or
\* without a segment before and after
Schemes == {<<"https:">>, <<"http:">>, <<"see ", "https:">>, <<"ftp:">>}
Hosts == {<<"github.com">>, <<"gitlab.com">>, <<"www.", "github.com">>}
Kinds == {<<"pull">>, <<"issues">>, <<"pulls">>}
Numbers(maxDigits) == SeqsUpTo({"4", "2", "x"}, maxDigits)

Urls(maxDigits) ==
  {before \o <<scheme, slash, host, owner, repo, kind, number>> \o after :
     before \in {<<>>, << <<"x">> >>},
     scheme \in Schemes,
     slash \in {<<>>, <<"x">>},
     host \in Hosts,
     owner \in {<<"acme">>, <<>>},
     repo \in {<<"widgets">>, <<>>},
     kind \in Kinds,
     number \in Numbers(maxDigits),
     after \in {<<>>, << <<"files">> >>}}

InitParse ==
  /\ CacheIdle
  /\ OrgIdle
  /\ BuddyIdle
  /\ ScoreIdle
  /\ MembersIdle
  /\ RaceIdle
  /\ now = 0
  /\ url \in Urls(MaxDigits)
  /\ parsed = NotParsed

CallParsePullRequestUrl ==
  /\ ~parsed.done
  /\ parsed' = [done |-> TRUE, ret |-> ParsePullRequestUrl(url)]
  /\ UNCHANGED <<url, cacheVars, orgVars, buddyVars, scoreVars, memberVars, raceVars>>

NextParse == CallParsePullRequestUrl

SpecParse == InitParse /\ [][NextParse]_vars

(***************************************************************************)
(* getReviewBuddy (src/src/test-client.ts, 192-218)                        *)
(***************************************************************************)
DisplayNames == {"Ann Lee", Null}

\* upstream: the first m logins as members, the name users.getByUsername
\* answers for each, and the logins for which it fails
Directories(maxMembers) ==
  UNION {[members : {[k \in 1..m |-> [login |-> AllLogins[k]]]},
          names : [FirstLogins(m) -> DisplayNames],
          failing : SUBSET FirstLogins(m)] : m \in 0..maxMembers}

\* line 206: { ...member, name: userDetails.name }
WithoutName(member, userDetails) == member

WithName(member, userDetails) ==
  [login |-> member.login, name |-> userDetails.name]

InitMembers ==
  /\ CacheIdle
  /\ OrgIdle
  /\ BuddyIdle
  /\ ScoreIdle
  /\ ParseIdle
  /\ RaceIdle
  /\ now = 0
  /\ directory \in Directories(MaxMembers)
  /\ lookups = [pc |-> "listMembers", callbacks |-> <<>>]
  /\ lookupOrder = <<>>
  /\ membersWithDetails = <<>>

\* lines 195-201: listMembers has answered; one callback per member is started
\* and waits for users.getByUsername
ListMembersResponds ==
  /\ lookups.pc = "listMembers"
  /\ lookups' = [pc |-> "Promise.all",
                 callbacks |-> [k \in 1..Len(directory.members) |->
                                  [member |-> directory.members[k],
                                   pc |-> "awaitUser",
                                   value |-> directory.members[k]]]]
  /\ UNCHANGED <<directory, lookupOrder, membersWithDetails>>
  /\ UNCHANGED <<cacheVars, orgVars, buddyVars, scoreVars, parseVars, raceVars>>

\* lines 203-206: users.getByUsername has answered the k-th callback
GetByUsernameResponds(k) ==
  /\ lookups.pc = "Promise.all"
  /\ k \in 1..Len(lookups.callbacks)
  /\ lookups.callbacks[k].pc = "awaitUser"
  /\ lookups.callbacks[k].member.login \notin directory.failing
  /\ LET member == lookups.callbacks[k].member
         userDetails == [login |-> member.login, name |-> directory.names[member.login]]
     IN lookups' = [lookups EXCEPT !.callbacks[k].value = WithName(member, userDetails),
                                   !.callbacks[k].pc = "done"]
  /\ lookupOrder' = Append(lookupOrder, k)
  /\ UNCHANGED <<directory, membersWithDetails>>
  /\ UNCHANGED <<cacheVars, orgVars, buddyVars, scoreVars, parseVars, raceVars>>

\* lines 207-213: users.getByUsername has failed for the k-th callback, which
\* catches the error and returns the member as listed
GetByUsernameFails(k) ==
  /\ lookups.pc = "Promise.all"
  /\ k \in 1..Len(lookups.callbacks)
  /\ lookups.callbacks[k].pc = "awaitUser"
  /\ lookups.callbacks[k].member.login \in directory.failing
  /\ lookups' = [lookups EXCEPT !.callbacks[k].value = lookups.callbacks[k].member,
                                !.callbacks[k].pc = "done"]
  /\ lookupOrder' = Append(lookupOrder, k)
  /\ UNCHANGED <<directory, membersWithDetails>>
  /\ UNCHANGED <<cacheVars, orgVars, buddyVars, scoreVars, parseVars, raceVars>>

\* lines 200-217: every callback has returned
MembersPromiseAllResolves ==
  /\ lookups.pc = "Promise.all"
  /\ \A k \in 1..Len(lookups.callbacks) : lookups.callbacks[k].pc = "done"
  /\ membersWithDetails' = PromiseAll(lookups.callbacks, lookupOrder)
  /\ lookups' = [lookups EXCEPT !.pc = "returned"]
  /\ UNCHANGED <<directory, lookupOrder>>
  /\ UNCHANGED <<cacheVars, orgVars, buddyVars, scoreVars, parseVars, raceVars>>

NextMembers ==
  \/ ListMembersResponds
  \/ \E k \in 1..MaxMembers : GetByUsernameResponds(k)
  \/ \E k \in 1..MaxMembers : GetByUsernameFails(k)
  \/ MembersPromiseAllResolves

SpecMembers == InitMembers /\ [][NextMembers]_vars

(***************************************************************************)
(* Upstream failures during find-pr-buddy                                  *)
(***************************************************************************)
\* the error of a failed upstream call: the call, and the callback of the
\* fan-out that made it (0: getPullRequestDetails)
UpstreamError(call, k) == [call |-> call, branch |-> k]

\* test-client.ts lines 242-246: pulls.get is awaited outside the try, so its
\* rejection (not found) is the rejection of getPullRequestDetails, and of the
\* handler, which awaits it without a try (index.ts line 166)
PullsGetFails ==
  /\ pc = "getPullRequestDetails"
  /\ failed' = Append(failed, UpstreamError("pulls.get", 0))
  /\ thrown' = UpstreamError("pulls.get", 0)
  /\ pc' = "threw"
  /\ UNCHANGED <<github, count, prDetails, buddies, reviewStates, branches, settled,
                 scoredReviewers, pullRequestsCache, reviewsCache, filesCache, issued>>
  /\ UNCHANGED <<cacheVars, orgVars, scoreVars, otherVars>>

\* test-client.ts lines 248-266: the rejection of pulls.listFiles is caught and
\* getPullRequestDetails returns null; index.ts lines 167-176 return isError
DetailsListFilesFails ==
  /\ pc = "getPullRequestDetails"
  /\ failed' = Append(failed, UpstreamError("pulls.listFiles", 0))
  /\ prDetails' = [pr |-> github.pull, files |-> {}, reviewers |-> {}]
  /\ pc' = "isError"
  /\ UNCHANGED <<github, count, buddies, reviewStates, branches, settled,
                 scoredReviewers, pullRequestsCache, reviewsCache, filesCache,
                 thrown, issued>>
  /\ UNCHANGED <<cacheVars, orgVars, scoreVars, otherVars>>

\* Promise.all rejects with the first rejection among its promises
RejectedWithLatest(current, error) == error

RejectedWith(current, error) ==
  IF current = NoError THEN error ELSE current

\* An upstream call the k-th callback waits for fails. Nothing catches it in
\* getReviewHistory, calculateRelatedFileExperience or the callback, so the
\* callback's promise is rejected, Promise.all with it (index.ts line 183) and
\* the handler, which awaits it without a try.
UpstreamFails(k) ==
  /\ pc \in {"Promise.all", "threw"}
  /\ k \in 1..Len(branches)
  /\ branches[k].pc \in FetchLabels \cup {"H_awaitComments"}
  /\ branches' = [branches EXCEPT ![k].pc = "threw"]
  /\ failed' = Append(failed, UpstreamError(branches[k].pc, k))
  /\ thrown' = RejectedWith(thrown, UpstreamError(branches[k].pc, k))
  /\ pc' = "threw"
  /\ UNCHANGED <<github, count, prDetails, buddies, reviewStates, settled,
                 scoredReviewers, pullRequestsCache, reviewsCache, filesCache, issued>>
  /\ UNCHANGED <<cacheVars, orgVars, scoreVars, otherVars>>

\* up to `members` members, over a repository of two recent pull requests that
\* the first member reviewed
FailWorlds(members) ==
  {World(SubSeq(AllLogins, 1, m), AllLogins[members + 1], {}, 2,
         [p \in 1..2 |-> Recent],
         [p \in 1..2 |-> <<AllLogins[1]>>],
         [p \in 1..2 |-> {"x.ts"}]) : m \in 0..members}

InitFail ==
  /\ OthersIdle
  /\ issued = NoHistory
  /\ CacheIdle
  /\ ScoreIdle
  /\ OrgNotCalled
  /\ now = CallTime
  /\ \E gh \in FailWorlds(FailMembers) : StartOfCall(gh, MaxCount)

NextFail ==
  \/ NextBuddy
  \/ PullsGetFails
  \/ DetailsListFilesFails
  \/ \E k \in 1..FailMembers : UpstreamFails(k)

SpecFail == InitFail /\ [][NextFail]_vars

\* two members, over a repository of `pulls` pull requests created before, at
\* or after the since of getReviewHistory, each with no review, one by a member
\* (with or without submitted_at), one by somebody else, or two by a member
HistCreated == {Old, CallTime - THIRTY_DAYS, Recent}

HistReviews(created) ==
  {<<>>,
   <<[user |-> "ann", submitted_at |-> created + 1]>>,
   <<[user |-> "ann", submitted_at |-> -1]>>,
   <<[user |-> "dee", submitted_at |-> created + 1]>>,
   <<[user |-> "ann", submitted_at |-> created + 1],
     [user |-> "ann", submitted_at |-> created + 3]>>,
   <<[user |-> "bob", submitted_at |-> -1],
     [user |-> "ann", submitted_at |-> created + 2]>>}

HistWorlds(pulls) ==
  UNION {{[World(<<"ann", "bob">>, "dee", {}, pulls, created,
                 [p \in 1..pulls |-> <<>>], [p \in 1..pulls |-> {"x.ts"}])
             EXCEPT !.reviews = reviews] :
            reviews \in {f \in [1..pulls -> UNION {HistReviews(c) : c \in HistCreated}] :
                           \A p \in 1..pulls : f[p] \in HistReviews(created[p])}} :
         created \in [1..pulls -> HistCreated]}

InitHist ==
  /\ OthersIdle
  /\ issued = NoHistory
  /\ CacheIdle
  /\ ScoreIdle
  /\ OrgNotCalled
  /\ now = CallTime
  /\ \E gh \in HistWorlds(HistPulls) : StartOfCall(gh, MaxCount)

SpecHist == InitHist /\ [][NextBuddy]_vars

(***************************************************************************)
(* The score alone (src/src/index.ts, 224-227)                             *)
(***************************************************************************)
ScoreArgs ==
  [pendingReviews : 0..MaxScoreArg,
   relatedFileChanges : 0..MaxScoreArg,
   totalReviews : 0..MaxScoreArg]

InitScore ==
  /\ OthersIdle
  /\ CacheIdle
  /\ OrgIdle
  /\ BuddyIdle
  /\ now = 0
  /\ scoreArgs \in ScoreArgs \X ScoreArgs
  /\ scores = <<>>

ComputeScores ==
  /\ scores = <<>>
  /\ scores' = [k \in 1..2 |-> Score(scoreArgs[k].pendingReviews,
                                     scoreArgs[k].relatedFileChanges,
                                     scoreArgs[k].totalReviews)]
  /\ UNCHANGED <<scoreArgs, cacheVars, orgVars, buddyVars, otherVars>>

NextScore == ComputeScores

SpecScore == InitScore /\ [][NextScore]_vars

(***************************************************************************)
(* Claims about CacheStore                                                 *)
(***************************************************************************)

\* C1: get(k) returns the value of the latest set of k exactly when there was
\* such a set since the last clear and its age, now - storedAt, is at most ttl
\* (an age equal to ttl still returns it); otherwise get returns null. So no
\* value older than ttl is ever returned.
C1_GetReturnsExactlyFresh ==
  lastOp.op = "get" =>
    LET w == written[lastOp.key] IN
    IF w.timestamp >= 0 /\ lastOp.at - w.timestamp <= ttl
    THEN lastOp.ret = Hit(w.data)
    ELSE lastOp.ret = Miss

\* a get that returned a value whose age is exactly ttl (ttl > 0)
C1_Witness ==
  /\ lastOp.op = "get"
  /\ lastOp.ret.hit
  /\ ttl > 0
  /\ lastOp.at - written[lastOp.key].timestamp = ttl

\* C2: after set(k, v1) at t1 and set(k, v2) at t2 >= t1, a get(k) at t with
\* t - t2 <= ttl returns v2, also when t - t1 > ttl.
C2_SecondSetObservable ==
  (/\ lastOp.op = "get"
   /\ overwritten[lastOp.key].timestamp >= 0
   /\ lastOp.at - written[lastOp.key].timestamp <= ttl)
  => lastOp.ret = Hit(written[lastOp.key].data)

\* a get that returned v2 although the first set, of another value, is older than ttl
C2_Witness ==
  /\ lastOp.op = "get"
  /\ overwritten[lastOp.key].timestamp >= 0
  /\ overwritten[lastOp.key].data # written[lastOp.key].data
  /\ lastOp.at - overwritten[lastOp.key].timestamp > ttl
  /\ lastOp.at - written[lastOp.key].timestamp <= ttl
  /\ lastOp.ret = Hit(written[lastOp.key].data)

\* a step that is a call get(k)
IsGetStep(k) ==
  /\ now' = now
  /\ lastOp'.op = "get"
  /\ lastOp'.key = k
  /\ lastOp'.at = now

\* C3: get(k) changes the store only when k's entry is expired, and then it
\* removes exactly that entry (one key fewer); on an absent key or a fresh
\* entry the store is unchanged; the entries of the other keys never change.
C3_GetFrame ==
  [][\A k \in Keys :
       IsGetStep(k) =>
         /\ \A j \in Keys \ {k} :
              /\ (j \in DOMAIN cache') = (j \in DOMAIN cache)
              /\ j \in DOMAIN cache => cache'[j] = cache[j]
         /\ IF k \in DOMAIN cache /\ now - cache[k].timestamp > ttl
            THEN /\ k \notin DOMAIN cache'
                 /\ Cardinality(DOMAIN cache') = Cardinality(DOMAIN cache) - 1
            ELSE cache' = cache]_vars

\* a get has just evicted the expired entry of its key and left the other key's entry
C3_Witness ==
  /\ lastOp.op = "get"
  /\ lastOp.at = now
  /\ lastOp.evicted
  /\ lastOp.ret = Miss
  /\ now - written[lastOp.key].timestamp > ttl
  /\ lastOp.key \notin DOMAIN cache
  /\ \E j \in Keys \ {lastOp.key} : j \in DOMAIN cache

(***************************************************************************)
(* Claims about the organization's pull requests                           *)
(***************************************************************************)

\* the pull requests listed for the repositories i.. of the organization, in order
RECURSIVE ListedFrom(_, _)
ListedFrom(repos, i) ==
  IF i > Len(repos) THEN <<>>
  ELSE PullsListOfRepo(repos, i) \o ListedFrom(repos, i + 1)

\* C4: getPullRequestByOwner(owner) returns the concatenation, in repository
\* order, of the pull requests listed for every repository of the organization.
C4_ReturnsConcatenation ==
  "getPullRequestByOwner" \in called =>
    pullRequestsOfOwner = ListedFrom(org, 1)

\* C5: in the mapping getReviewRequestsPerUser(owner) returns, every login's
\* count is the number of pull requests of the organization that list the login
\* in requested_reviewers.
C5_CountsRequests ==
  "getReviewRequestsPerUser" \in called =>
    \A login \in Logins :
      PendingReviews(requestsPerUser, login) =
        Cardinality({pr \in {ListedFrom(org, 1)[i] : i \in 1..Len(ListedFrom(org, 1))} :
                       login \in pr.requested_reviewers})

(***************************************************************************)
(* Claims about find-pr-buddy                                              *)
(***************************************************************************)

\* C6: the ranked result of find-pr-buddy never contains the pull request's author.
C6_AuthorExcluded ==
  pc = "returned" =>
    \A k \in 1..Len(scoredReviewers) : scoredReviewers[k].login # github.pull.user

\* C7: the ranked result of find-pr-buddy never contains a login that is among
\* the pull request's requested reviewers.
C7_RequestedExcluded ==
  pc = "returned" =>
    \A k \in 1..Len(scoredReviewers) :
      scoredReviewers[k].login \notin github.pull.requested_reviewers

\* the position in the member list of the candidate with this login
PositionOf(login) == CHOOSE k \in 1..Len(github.members) : github.members[k] = login

ScoreEqual(a, b) == ~ScoreLess(a, b) /\ ~ScoreLess(b, a)

\* x is ranked before y: a higher score, or the same score and earlier in the member list
RankedBefore(x, y) ==
  \/ ScoreLess(y.score, x.score)
  \/ ScoreEqual(x.score, y.score) /\ PositionOf(x.login) < PositionOf(y.login)

\* C8: for count >= 0 the result is the first min(count, n) of the n candidates
\* sorted by descending score, candidates of equal score in member-list order,
\* whatever the order in which their callbacks returned.
C8_RankedPrefix ==
  (pc = "returned" /\ count >= 0) =>
    LET n == Len(branches)
        candidates == {WithScore(branches[k].value) : k \in 1..n}
        chosen == {scoredReviewers[k] : k \in 1..Len(scoredReviewers)}
    IN /\ Len(scoredReviewers) = (IF count < n THEN count ELSE n)
       /\ Cardinality(chosen) = Len(scoredReviewers)
       /\ chosen \subseteq candidates
       /\ \A a, b \in 1..Len(scoredReviewers) :
            a < b => RankedBefore(scoredReviewers[a], scoredReviewers[b])
       /\ \A x \in chosen, y \in candidates \ chosen : RankedBefore(x, y)

\* three candidates, the first two of equal score and the third lower, the
\* callbacks returned last to first, count = 2: the result is the first two in order
C8_Witness ==
  /\ pc = "returned"
  /\ count = 2
  /\ Len(branches) = 3
  /\ settled = <<3, 2, 1>>
  /\ ScoreEqual(WithScore(branches[1].value).score, WithScore(branches[2].value).score)
  /\ ScoreLess(WithScore(branches[3].value).score, WithScore(branches[1].value).score)
  /\ Len(scoredReviewers) = 2
  /\ scoredReviewers[1].login = branches[1].reviewer
  /\ scoredReviewers[2].login = branches[2].reviewer

\* C9: for fixed relatedFileChanges and totalReviews a larger pendingReviews
\* gives a strictly smaller score; for fixed pendingReviews and totalReviews a
\* larger relatedFileChanges gives a strictly larger score; the divisor
\* pendingReviews + 1 is never zero.
C9_ScoreMonotone ==
  scores # <<>> =>
    LET a == scoreArgs[1]
        b == scoreArgs[2]
    IN /\ (/\ a.relatedFileChanges = b.relatedFileChanges
           /\ a.totalReviews = b.totalReviews
           /\ a.pendingReviews < b.pendingReviews) => ScoreLess(scores[2], scores[1])
       /\ (/\ a.pendingReviews = b.pendingReviews
           /\ a.totalReviews = b.totalReviews
           /\ a.relatedFileChanges < b.relatedFileChanges) => ScoreLess(scores[1], scores[2])
       /\ scores[1].den # 0
       /\ scores[2].den # 0

\* two scores computed for candidates that differ in pendingReviews only
C9_Witness ==
  /\ scores # <<>>
  /\ scoreArgs[1].relatedFileChanges = scoreArgs[2].relatedFileChanges
  /\ scoreArgs[1].totalReviews = scoreArgs[2].totalReviews
  /\ scoreArgs[1].pendingReviews < scoreArgs[2].pendingReviews
  /\ scoreArgs[1].relatedFileChanges > 0
  /\ ScoreLess(scores[2], scores[1])

\* the pull requests of the repository's list that the reviewer reviewed and
\* that share a changed file with pull request prNumber
RelatedPulls(prNumber, reviewer) ==
  {k \in 1..Len(github.pulls) :
     LET p == github.pulls[k].number IN
     /\ \E r \in 1..Len(github.reviews[p]) : github.reviews[p][r].user = reviewer
     /\ github.files[p] \cap github.files[prNumber] # {}}

\* C10: calculateRelatedFileExperience returns the number of pull requests of
\* the repository's list with at least one review by the reviewer and at least
\* one changed file in common with pull request prNumber, each counted once and
\* the pull request prNumber itself among them.
C10_RelatedFileExperience ==
  \A k \in 1..Len(branches) :
    branches[k].pc = "done" =>
      branches[k].value.relatedFileChanges =
        Cardinality(RelatedPulls(github.pull.number, branches[k].reviewer))

\* the reviewer reviewed the current pull request and left two reviews on
\* another that shares a file with it: the experience is 2
C10_Witness ==
  /\ Len(branches) = 1
  /\ branches[1].pc = "done"
  /\ branches[1].value.relatedFileChanges = 2
  /\ \E r \in 1..Len(github.reviews[1]) : github.reviews[1][r].user = branches[1].reviewer
  /\ Len(github.reviews[2]) = 2
  /\ \A r \in 1..2 : github.reviews[2][r].user = branches[1].reviewer

(***************************************************************************)
(* Claims about getReviewHistory                                           *)
(***************************************************************************)

\* the callback has its history: getReviewHistory has returned
HasHistory(b) ==
  b.pc \notin {"H_start", "H_loop", "H_reviews", "H_each",
               "H_awaitPulls", "H_awaitReviews", "H_awaitComments"}

\* upstream: the pull request of the repository's list with this number
PullNumbered(n) ==
  github.pulls[CHOOSE k \in 1..Len(github.pulls) : github.pulls[k].number = n]

\* upstream: the reviews by the reviewer of the pull requests created at or
\* after since, as pairs of a pull request number and a position in its reviews
KeptReviews(reviewer, since) ==
  UNION {{<<n, r>> : r \in {q \in 1..Len(github.reviews[n]) :
                                /\ github.reviews[n][q].user = reviewer
                                /\ PullNumbered(n).created_at >= since}} :
         n \in 1..Len(github.pulls)}

\* C11: no entry of the reviews getReviewHistory returns has the prNumber of a
\* pull request created strictly before since, and totalReviews is the number
\* of the reviewer's reviews of the pull requests created at or after since (a
\* pull request created exactly at since is kept).
C11_SinceCutoff ==
  \A k \in 1..Len(branches) :
    HasHistory(branches[k]) =>
      LET b == branches[k] IN
      /\ \A e \in 1..Len(b.history.reviews) :
           ~(PullNumbered(b.history.reviews[e].prNumber).created_at < b.since)
      /\ b.history.totalReviews = Cardinality(KeptReviews(b.reviewer, b.since))

\* a history that counts a review of a pull request created exactly at since
\* and leaves out a review of one created before since
C11_Witness ==
  \E k \in 1..Len(branches) :
    LET b == branches[k] IN
    /\ HasHistory(b)
    /\ b.history.totalReviews = 1
    /\ PullNumbered(b.history.reviews[1].prNumber).created_at = b.since
    /\ \E n \in 1..Len(github.pulls) :
         /\ PullNumbered(n).created_at < b.since
         /\ \E r \in 1..Len(github.reviews[n]) : github.reviews[n][r].user = b.reviewer

\* the sum over a set of kept reviews of submitted_at - created_at, an absent
\* submitted_at counting 0
RECURSIVE SumOfResponseTimes(_)
SumOfResponseTimes(kept) ==
  IF kept = {} THEN 0
  ELSE LET x == CHOOSE y \in kept : TRUE
           submitted == github.reviews[x[1]][x[2]].submitted_at
       IN (IF submitted = -1 THEN 0 ELSE submitted - PullNumbered(x[1]).created_at)
          + SumOfResponseTimes(kept \ {x})

\* C12: totalReviews is the length of reviews; averageResponseTime is the sum
\* over the matched reviews of submittedAt - createdAt (0 for a review without
\* submittedAt) divided by totalReviews; it is exactly 0 when no review matched
\* and exactly T when the only matched review was submitted T after the creation.
C12_AverageResponseTime ==
  \A k \in 1..Len(branches) :
    HasHistory(branches[k]) =>
      LET h == branches[k].history
          kept == KeptReviews(branches[k].reviewer, branches[k].since)
          sum == SumOfResponseTimes(kept)
      IN /\ h.totalReviews = Len(h.reviews)
         /\ h.averageResponseTime.den > 0
         /\ IF h.totalReviews = 0
            THEN h.averageResponseTime.num = 0
            ELSE h.averageResponseTime.num * h.totalReviews
                   = sum * h.averageResponseTime.den
         /\ h.totalReviews = 1 =>
              h.averageResponseTime.num = sum * h.averageResponseTime.den

\* one history of two reviews, one of them without submittedAt, whose average
\* is half the response time of the other, and one history without any review
C12_Witness ==
  /\ \E k \in 1..Len(branches) :
       LET h == branches[k].history IN
       /\ HasHistory(branches[k])
       /\ h.totalReviews = 2
       /\ \E e \in 1..2 : h.reviews[e].submittedAt = -1
       /\ h.averageResponseTime.num > 0
       /\ h.averageResponseTime.den = 2
  /\ \E k \in 1..Len(branches) :
       /\ HasHistory(branches[k])
       /\ branches[k].history.totalReviews = 0
       /\ branches[k].history.averageResponseTime.num = 0

(***************************************************************************)
(* Claims about upstream failures                                          *)
(***************************************************************************)

\* C13: when the pull-request lookup fails with not-found, getPullRequestDetails
\* returns absent rather than raising: find-pr-buddy answers with its isError
\* result, its promise is not rejected, and no callback is started.
C13_NotFoundIsAbsent ==
  (\E f \in 1..Len(failed) : failed[f] = UpstreamError("pulls.get", 0)) =>
    /\ pc = "isError"
    /\ thrown = NoError
    /\ branches = <<>>

\* the failures of upstream calls made by the callbacks of the fan-out, in order
BranchFailures == SelectSeq(failed, LAMBDA f : f.branch > 0)

\* C18: if an upstream call fails inside the history or related-file
\* computation of any candidate, the call fails with that error (of the first
\* failure) and returns no ranked list, not even of the other candidates; a
\* ranked list is returned only when every candidate's callback succeeded.
C18_OneFailureFailsAll ==
  /\ BranchFailures # <<>> =>
       /\ pc = "threw"
       /\ thrown = BranchFailures[1]
       /\ scoredReviewers = <<>>
  /\ pc = "returned" =>
       /\ BranchFailures = <<>>
       /\ \A k \in 1..Len(branches) : branches[k].pc = "done"

\* one candidate's callback has returned its value and the other's has failed:
\* the call is rejected with that error and no list is returned
C18_Witness ==
  /\ Len(branches) = 2
  /\ Len(BranchFailures) = 1
  /\ \E k \in 1..2 : branches[k].pc = "done"
  /\ \E k \in 1..2 : branches[k].pc = "threw"
  /\ pc = "threw"
  /\ thrown = BranchFailures[1]
  /\ scoredReviewers = <<>>

(***************************************************************************)
(* Claims about getReviewBuddy                                             *)
(***************************************************************************)

\* C14: whatever the member list and the members whose detail lookup fails,
\* getReviewBuddy returns one record per member, in member-list order: the
\* member with the display name where the lookup succeeded, the member as
\* listed (no name) where it failed. No lookup's failure ends the call.
C14_OneRecordPerMember ==
  /\ lookups.pc \in {"listMembers", "Promise.all", "returned"}
  /\ lookups.pc = "returned" =>
       /\ Len(membersWithDetails) = Len(directory.members)
       /\ \A k \in 1..Len(directory.members) :
            LET member == directory.members[k] IN
            IF member.login \in directory.failing
            THEN membersWithDetails[k] = member
            ELSE /\ DOMAIN membersWithDetails[k] = {"login", "name"}
                 /\ membersWithDetails[k].login = member.login
                 /\ membersWithDetails[k].name = directory.names[member.login]

\* three members, the lookup of the second failed, the callbacks returned last
\* to first: the result is in member-list order, the second without a name
C14_Witness ==
  /\ lookups.pc = "returned"
  /\ Len(directory.members) = 3
  /\ directory.failing = {directory.members[2].login}
  /\ lookupOrder = <<3, 2, 1>>
  /\ directory.names[directory.members[1].login] # directory.names[directory.members[3].login]
  /\ \A k \in 1..3 : membersWithDetails[k].login = directory.members[k].login
  /\ DOMAIN membersWithDetails[2] = {"login"}

(***************************************************************************)
(* Claims about parsePullRequestUrl                                        *)
(***************************************************************************)

\* a segment that is a number: digits only, at least one
IsNumber(seg) == seg # <<>> /\ \A k \in 1..Len(seg) : IsDigit(seg[k])

\* the decimal value of a number
NumberValue(seg) ==
  LET upTo[k \in 0..Len(seg)] ==
        IF k = 0 THEN 0 ELSE 10 * upTo[k - 1] + DigitValue(seg[k])
  IN upTo[Len(seg)]

\* the string is https://<host>/<owner>/<repo>/pull/<number> and nothing else
IsPullUrl(segments) ==
  /\ Len(segments) = 7
  /\ segments[1] = <<"https:">>
  /\ segments[2] = <<>>
  /\ segments[3] # <<>>
  /\ segments[4] # <<>>
  /\ segments[5] # <<>>
  /\ segments[6] = <<"pull">>
  /\ IsNumber(segments[7])

Components(segments, i) ==
  [ok |-> TRUE, owner |-> segments[i + 3], repo |-> segments[i + 4],
   pullNumber |-> NumberValue(DigitPrefix(segments[i + 6]))]

\* C15 as stated: a string of the shape https://<host>/<owner>/<repo>/pull/<number>
\* is parsed into its components, every other string into absent.
C15_ParsesTheShape ==
  parsed.done =>
    IF IsPullUrl(url) THEN parsed.ret = Components(url, 1) ELSE parsed.ret = ParseMiss

\* the places of a string where the text http(s)://github.com/<owner>/<repo>/pull/<digits>
\* begins (whatever precedes and follows it)
PullLinks(segments) ==
  {i \in 1..Len(segments) :
     /\ i + 6 <= Len(segments)
     /\ \E scheme \in {"http:", "https:"} :
          segments[i] # <<>> /\ segments[i][Len(segments[i])] = scheme
     /\ SubSeq(segments, i + 1, i + 2) = << <<>>, <<"github.com">> >>
     /\ segments[i + 3] # <<>>
     /\ segments[i + 4] # <<>>
     /\ segments[i + 5] = <<"pull">>
     /\ segments[i + 6] # <<>>
     /\ IsDigit(segments[i + 6][1])}

\* C15, amended: a string of the shape https://github.com/<owner>/<repo>/pull/<number>
\* is parsed into its components; a string that contains the text
\* http(s)://github.com/<owner>/<repo>/pull/<digits> is parsed into the components
\* of the first such text; every other string, that of another host among
\* them, is parsed into absent.
C15_ParsesGithubLinks ==
  parsed.done =>
    /\ (IsPullUrl(url) /\ url[3] = <<"github.com">>) => parsed.ret = Components(url, 1)
    /\ PullLinks(url) = {} => parsed.ret = ParseMiss
    /\ PullLinks(url) # {} =>
         \E i \in PullLinks(url) :
           /\ \A j \in PullLinks(url) : i <= j
           /\ parsed.ret = Components(url, i)

\* https://github.com/acme/widgets/pull/42 parsed into acme, widgets, 42
C15_Witness ==
  /\ parsed.done
  /\ url = << <<"https:">>, <<>>, <<"github.com">>, <<"acme">>, <<"widgets">>,
              <<"pull">>, <<"4", "2">> >>
  /\ parsed.ret = [ok |-> TRUE, owner |-> <<"acme">>, repo |-> <<"widgets">>,
                   pullNumber |-> 42]

(***************************************************************************)
(* Claims about the upstream calls of one find-pr-buddy call               *)
(***************************************************************************)

\* the number of times the k-th callback has asked upstream for the key
TimesIssued(k, key) ==
  Cardinality({x \in 1..Len(issued.keys[k]) : issued.keys[k][x] = key})

IssuedKeys == UNION {{issued.keys[k][x] : x \in 1..Len(issued.keys[k])} :
                       k \in 1..Len(issued.keys)}

\* C16 as stated: during one call that starts with empty caches and ends before
\* any entry expires, the upstream list call of every cache key is issued at
\* most once, however many candidates there are.
C16_OneFetchPerKey ==
  \A key \in IssuedKeys :
    Cardinality({k \in 1..Len(issued.keys) : TimesIssued(k, key) > 0}) <= 1
    /\ \A k \in 1..Len(issued.keys) : TimesIssued(k, key) <= 1

\* C16, amended: during such a call each candidate's computations issue the
\* upstream list call of a cache key at most once, so a key is fetched at most
\* once per candidate, and at most once when there is one candidate.
C16_OneFetchPerKeyAndCandidate ==
  \A key \in IssuedKeys :
    \A k \in 1..Len(issued.keys) : TimesIssued(k, key) <= 1

\* the call has returned; both candidates asked upstream for the pull request
\* list, each once, and the clock advanced by CACHE_TTL meanwhile
C16_Witness ==
  /\ pc = "returned"
  /\ Len(branches) = 2
  /\ now = CallTime + CACHE_TTL
  /\ \A k \in 1..2 : TimesIssued(k, GetPRCacheKey(Owner, Repo)) = 1
  /\ \E k \in 1..2 : Len(issued.keys[k]) > 2

(***************************************************************************)
(* Claims about interleaved reads through the cache                        *)
(***************************************************************************)

\* C17: when interleaved computations miss on the same key, each fetches and
\* each sets the key; the entry of the key then holds the value and timestamp
\* of the set executed last, a get of the key within ttl of that set returns
\* that value, and every value a get of a key returned is a value upstream
\* returned for that key, never one fetched for another key.
C17_LaterWriteWins ==
  /\ \A k \in Keys :
       k \in DOMAIN cache =>
         cache[k] = [data |-> written[k].data, timestamp |-> written[k].timestamp]
  /\ (/\ lastOp.op = "get"
      /\ written[lastOp.key].timestamp >= 0
      /\ lastOp.at - written[lastOp.key].timestamp <= ttl)
     => lastOp.ret = Hit(written[lastOp.key].data)
  /\ lastOp.op = "get" /\ lastOp.ret.hit =>
       lastOp.ret.value \in fetched[lastOp.key]
  /\ \A c \in 1..Len(computations) :
       computations[c].pc = "done" =>
         computations[c].data \in fetched[computations[c].key]

\* two computations missed on the same key before either had set it and were
\* answered different lists at different times; a third then read the key
\* within ttl and got the list set last
C17_Witness ==
  \E a, b, c \in 1..Len(computations) :
    LET k == computations[a].key IN
    /\ a # b
    /\ computations[b].key = k
    /\ computations[c].key = k
    /\ computations[a].pc = "done" /\ computations[a].missed
    /\ computations[b].pc = "done" /\ computations[b].missed
    /\ computations[c].pc = "done" /\ ~computations[c].missed
    /\ computations[a].data = overwritten[k].data
    /\ computations[b].data = written[k].data
    /\ overwritten[k].data # written[k].data
    /\ overwritten[k].timestamp >= 0
    /\ overwritten[k].timestamp < written[k].timestamp
    /\ written[k].timestamp - overwritten[k].timestamp <= ttl
    /\ computations[c].data = written[k].data
    /\ lastOp.op = "get" /\ lastOp.key = k /\ lastOp.at > written[k].timestamp

=============================================================================
